---- MODULE Spec2Model ----
(***************************************************************************)
(* Model of the agentic analyst service                                    *)
(* (src/backend/app/services/agentic_analyst.py): the table loader, the    *)
(* code sanitizer, the execution sandbox, the result normalizer and the    *)
(* retry controller AgenticAnalyst.analyze.                                *)
(*                                                                         *)
(* Text is a sequence of one-character strings, so that the string         *)
(* operations of the source (strip, split, replace, startswith, lower)     *)
(* are computed on characters as Python computes them.  Error messages     *)
(* are sequences of strings as well.                                       *)
(***************************************************************************)
EXTENDS Integers, Sequences, FiniteSets, TLC

(***************************************************************************)
(* Python string primitives                                                *)
(***************************************************************************)
NL == "\n"

IsSpace(c) == c \in {" ", NL, "\t"}

Min2(a, b) == IF a <= b THEN a ELSE b

\* s[i:] (1-based i)
Drop(s, i) == SubSeq(s, i, Len(s))

\* s.startswith(p) at position i
MatchAt(s, i, p) ==
    /\ i >= 1
    /\ i + Len(p) - 1 <= Len(s)
    /\ SubSeq(s, i, i + Len(p) - 1) = p

StartsWith(s, p) == MatchAt(s, 1, p)

\* s.find(p, i): the least position >= i at which p occurs, 0 when none
FindFrom(s, p, i) ==
    LET hits == {j \in i..(Len(s) - Len(p) + 1) : MatchAt(s, j, p)}
    IN  IF hits = {} THEN 0 ELSE CHOOSE j \in hits : \A k \in hits : j <= k

\* p in s
Contains(s, p) == FindFrom(s, p, 1) > 0

\* s.replace(p, r): every non-overlapping occurrence, left to right
RECURSIVE Replace(_, _, _)
Replace(s, p, r) ==
    LET j == FindFrom(s, p, 1)
    IN  IF j = 0 THEN s
        ELSE SubSeq(s, 1, j - 1) \o r \o Replace(Drop(s, j + Len(p)), p, r)

\* s.lstrip(), s.rstrip(), s.strip()
RECURSIVE LStrip(_)
LStrip(s) == IF s # <<>> /\ IsSpace(Head(s)) THEN LStrip(Tail(s)) ELSE s

RECURSIVE RStrip(_)
RStrip(s) ==
    IF s # <<>> /\ IsSpace(s[Len(s)]) THEN RStrip(SubSeq(s, 1, Len(s) - 1)) ELSE s

Strip(s) == LStrip(RStrip(s))

\* s.split('\n'): always at least one line
RECURSIVE SplitLines(_)
SplitLines(s) ==
    LET j == FindFrom(s, <<NL>>, 1)
    IN  IF j = 0 THEN <<s>>
        ELSE <<SubSeq(s, 1, j - 1)>> \o SplitLines(Drop(s, j + 1))

\* '\n'.join(lines)
RECURSIVE JoinLines(_)
JoinLines(lines) ==
    IF lines = <<>> THEN <<>>
    ELSE IF Len(lines) = 1 THEN lines[1]
    ELSE lines[1] \o <<NL>> \o JoinLines(Tail(lines))

\* str.lower() on the characters that occur in sheet names
LowerChar(c) ==
    CASE c = "R" -> "r"
      [] c = "T" -> "t"
      [] c = "P" -> "p"
      [] c = "L" -> "l"
      [] c = "S" -> "s"
      [] OTHER -> c

LowerText(s) == [i \in 1..Len(s) |-> LowerChar(s[i])]

(***************************************************************************)
(* Code Sanitizer: AgenticAnalyst._clean_code                              *)
(***************************************************************************)
\* the backquote character (the lexer admits no backquote in a string)
BQ == "bq"

Fence == <<BQ, BQ, BQ>>

FencePython == Fence \o <<"p", "y", "t", "h", "o", "n">>

FencePy == Fence \o <<"p", "y">>

\* the prefixes of conversational lines (line 356)
ConversationalPrefixes ==
    {<<"H", "e", "r", "e">>,
     <<"L", "e", "t">>,
     <<"O", "k", "a", "y">>,
     <<"I", " ">>,
     <<"T", "h", "e", " ">>,
     <<"T", "h", "i", "s", " ">>,
     <<"W", "e", " ">>,
     <<"N", "o", "w", " ">>}

\* the prefixes of lines that look like Python (line 358)
CodePrefixes ==
    {<<"i", "m", "p", "o", "r", "t", " ">>,
     <<"f", "r", "o", "m", " ">>,
     <<"d", "e", "f", " ">>,
     <<"#">>,
     <<"c", "l", "a", "s", "s", " ">>,
     <<"i", "f", " ">>,
     <<"f", "o", "r", " ">>,
     <<"w", "h", "i", "l", "e", " ">>,
     <<"t", "r", "y", ":">>,
     <<"w", "i", "t", "h", " ">>}

\* The opening of the pattern (fence, optional python or py, newline) at
\* position i: the position of the
\* first character of the group (.*?), or 0 when the opening does not match.
OpenerEnd(s, i) ==
    IF MatchAt(s, i, FencePython \o <<NL>>) THEN i + Len(FencePython) + 1
    ELSE IF MatchAt(s, i, FencePy \o <<NL>>) THEN i + Len(FencePy) + 1
    ELSE IF MatchAt(s, i, Fence \o <<NL>>) THEN i + Len(Fence) + 1
    ELSE 0

\* re.findall(pattern, code, re.DOTALL)[0]: the group of the leftmost match,
\* lazily ended by the first closing fence.
BlockStarts(s) ==
    {i \in 1..Len(s) : OpenerEnd(s, i) > 0 /\ FindFrom(s, Fence, OpenerEnd(s, i)) > 0}

HasFencedBlock(s) == BlockStarts(s) # {}

\* the group ended greedily, by the last closing fence
FirstFencedBlockGreedy(s) ==
    LET i == CHOOSE j \in BlockStarts(s) : \A k \in BlockStarts(s) : j <= k
        b == OpenerEnd(s, i)
        ends == {j \in b..Len(s) : MatchAt(s, j, Fence)}
        e == CHOOSE j \in ends : \A k \in ends : k <= j
    IN  SubSeq(s, b, e - 1)

FirstFencedBlock(s) ==
    LET i == CHOOSE j \in BlockStarts(s) : \A k \in BlockStarts(s) : j <= k
        b == OpenerEnd(s, i)
        e == FindFrom(s, Fence, b)
    IN  SubSeq(s, b, e - 1)

\* lines 335-345
StripFences(code) ==
    IF Contains(code, Fence)
    THEN IF HasFencedBlock(code)
         THEN Strip(FirstFencedBlock(code))
         ELSE Strip(Replace(Replace(Replace(code, FencePython, <<>>),
                                    FencePy, <<>>), Fence, <<>>))
    ELSE code

\* the test of lines 356-358 on one line
LooksLikeCode(line) ==
    LET stripped == Strip(line)
    IN  /\ stripped # <<>>
        /\ ~ \E p \in ConversationalPrefixes : StartsWith(stripped, p)
        /\ \/ \E p \in CodePrefixes : StartsWith(stripped, p)
           \/ Contains(stripped, <<"=">>)

\* lines 349-360: the 0-based index of the first line that looks like code,
\* 0 when there is none
CodeStart(lines) ==
    LET hits == {i \in 1..Len(lines) : LooksLikeCode(lines[i])}
    IN  IF hits = {} THEN 0
        ELSE (CHOOSE i \in hits : \A k \in hits : i <= k) - 1

\* lines 331-365
CleanCode(code) ==
    LET c1 == StripFences(code)
        lines == SplitLines(c1)
        code_start == CodeStart(lines)
        c2 == IF code_start > 0 THEN JoinLines(Drop(lines, code_start + 1)) ELSE c1
    IN  Strip(c2)

(***************************************************************************)
(* Tables.  A cell is a number, a string or NaN (an empty cell); a         *)
(* DataFrame is its column names, their dtypes and its rows.               *)
(***************************************************************************)
NaN == [k |-> "nan", n |-> 0, s |-> ""]

Num(v) == [k |-> "num", n |-> v, s |-> ""]

Str(t) == [k |-> "str", n |-> 0, s |-> t]

IsNa(c) == c.k = "nan"

\* the subsequence of seq at the positions in keep, in order
RECURSIVE SelectAt(_, _, _)
SelectAt(seq, keep, i) ==
    IF i > Len(seq) THEN <<>>
    ELSE (IF i \in keep THEN <<seq[i]>> ELSE <<>>) \o SelectAt(seq, keep, i + 1)

\* df.dropna(how='all'): the rows that hold at least one value
DropNaRows(df) ==
    LET keep == {i \in 1..Len(df.rows) :
                    \E j \in 1..Len(df.cols) : ~IsNa(df.rows[i][j])}
    IN  [cols |-> df.cols, dtypes |-> df.dtypes, rows |-> SelectAt(df.rows, keep, 1)]

\* df.dropna(axis=1, how='all'): the columns that hold at least one value
DropNaCols(df) ==
    LET keep == {j \in 1..Len(df.cols) :
                    \E i \in 1..Len(df.rows) : ~IsNa(df.rows[i][j])}
    IN  [cols |-> SelectAt(df.cols, keep, 1),
         dtypes |-> SelectAt(df.dtypes, keep, 1),
         rows |-> [i \in 1..Len(df.rows) |-> SelectAt(df.rows[i], keep, 1)]]

\* df.empty
IsEmptyDf(df) == Len(df.rows) = 0 \/ Len(df.cols) = 0

\* the dtype pandas infers for column j of the rows read
InferDtype(rows, j) ==
    IF \E i \in 1..Len(rows) : rows[i][j].k = "str" THEN "object"
    ELSE IF \E i \in 1..Len(rows) : IsNa(rows[i][j]) THEN "float64"
    ELSE IF rows = <<>> THEN "object"
    ELSE "int64"

\* pd.read_excel(xls, sheet_name): the first row is the header
ReadExcel(sheet) ==
    [cols |-> sheet.header,
     dtypes |-> [j \in 1..Len(sheet.header) |-> InferDtype(sheet.rows, j)],
     rows |-> sheet.rows]

(***************************************************************************)
(* Python dict with insertion order: a sequence of [name, df] items        *)
(***************************************************************************)
DictKeys(d) == [i \in 1..Len(d) |-> d[i].name]

DictHas(d, k) == \E i \in 1..Len(d) : d[i].name = k

DictGet(d, k) == d[CHOOSE i \in 1..Len(d) : d[i].name = k].df

\* d[k] = v: an existing key keeps its position and takes the new value
DictSet(d, k, v) ==
    IF DictHas(d, k)
    THEN [i \in 1..Len(d) |-> IF d[i].name = k THEN [name |-> k, df |-> v] ELSE d[i]]
    ELSE Append(d, [name |-> k, df |-> v])

(***************************************************************************)
(* Table Loader: AgenticAnalyst._load_excel_sheets                         *)
(***************************************************************************)
\* line 135: lower(), then ' ' -> '_', '&' -> 'and', '-' -> '_'
NormalizeName(sheet_name) ==
    Replace(Replace(Replace(LowerText(sheet_name), <<" ">>, <<"_">>),
                    <<"&">>, <<"a", "n", "d">>), <<"-">>, <<"_">>)

\* lines 133-141, from sheet i on
RECURSIVE LoadSheetsFrom(_, _, _)
LoadSheetsFrom(sheets, i, df_dict) ==
    IF i > Len(sheets) THEN df_dict
    ELSE LET normalized_name == NormalizeName(sheets[i].name)
             df == DropNaCols(DropNaRows(ReadExcel(sheets[i])))
         IN  LoadSheetsFrom(sheets, i + 1, DictSet(df_dict, normalized_name, df))

\* a loader that swallows the fault of pd.ExcelFile and returns no table
LoadExcelSheetsSwallow(wb) ==
    [ok |-> TRUE,
     df_dict |-> IF wb.readable THEN LoadSheetsFrom(wb.sheets, 1, <<>>) ELSE <<>>,
     error |-> <<>>]

\* lines 127-143; pd.ExcelFile raises on a source that cannot be read
LoadExcelSheets(wb) ==
    IF wb.readable
    THEN [ok |-> TRUE, df_dict |-> LoadSheetsFrom(wb.sheets, 1, <<>>), error |-> <<>>]
    ELSE [ok |-> FALSE, df_dict |-> <<>>, error |-> <<"cannot read source">>]

(***************************************************************************)
(* Introspector: AgenticAnalyst._analyze_dataframes                        *)
(***************************************************************************)
DigitChar(d) ==
    CASE d = 0 -> "0" [] d = 1 -> "1" [] d = 2 -> "2" [] d = 3 -> "3" [] d = 4 -> "4"
      [] d = 5 -> "5" [] d = 6 -> "6" [] d = 7 -> "7" [] d = 8 -> "8" [] OTHER -> "9"

\* str(n) of a natural number
RECURSIVE Digits(_)
Digits(n) == IF n < 10 THEN <<DigitChar(n)>> ELSE Digits(n \div 10) \o <<DigitChar(n % 10)>>

\* str(v) of a cell of a column of the given dtype
StrOfCell(c, dtype) ==
    IF c.k = "str" THEN <<c.s>>
    ELSE IF dtype = "float64" THEN Digits(c.n) \o <<".", "0">>
    ELSE Digits(c.n)

\* the values of seq without repetition, in order of first appearance
RECURSIVE Unique(_, _)
Unique(seq, seen) ==
    IF seq = <<>> THEN <<>>
    ELSE IF Head(seq) \in seen THEN Unique(Tail(seq), seen)
    ELSE <<Head(seq)>> \o Unique(Tail(seq), seen \cup {Head(seq)})

MaxSampleLabels == 10

\* lines 156-178 for one DataFrame that is not empty
AnalyzeOne(df) ==
    LET objectCols == {j \in 1..Len(df.cols) :
                          /\ df.dtypes[j] = "object"
                          /\ \E i \in 1..Len(df.rows) : ~IsNa(df.rows[i][j])}
        metric_col == IF objectCols = {} THEN <<>>
                      ELSE <<df.cols[CHOOSE j \in objectCols : \A k \in objectCols : j <= k]>>
        numeric == {j \in 1..Len(df.cols) : df.dtypes[j] \in {"int64", "float64"}}
        first == SelectAt([i \in 1..Len(df.rows) |-> df.rows[i][1]],
                          {i \in 1..Len(df.rows) : ~IsNa(df.rows[i][1])}, 1)
        uniq == Unique(first, {})
        first_col_values == SubSeq(uniq, 1, Min2(MaxSampleLabels, Len(uniq)))
    IN  [columns |-> df.cols,
         shape |-> <<Len(df.rows), Len(df.cols)>>,
         metric_column |-> metric_col,
         numeric_columns |-> SelectAt(df.cols, numeric, 1),
         sample_labels |-> [i \in 1..Len(first_col_values) |->
                               StrOfCell(first_col_values[i], df.dtypes[1])],
         dtypes |-> df.dtypes]

\* lines 145-180: empty DataFrames are skipped
RECURSIVE AnalyzeDataframes(_)
AnalyzeDataframes(df_dict) ==
    IF df_dict = <<>> THEN <<>>
    ELSE (IF IsEmptyDf(Head(df_dict).df) THEN <<>>
          ELSE <<[name |-> Head(df_dict).name, info |-> AnalyzeOne(Head(df_dict).df)]>>)
         \o AnalyzeDataframes(Tail(df_dict))

(***************************************************************************)
(* Python values and statements.  A value bound in a scope is a number, a  *)
(* reference to a DataFrame object of df_dict (by its key) or a reference  *)
(* to a primitive object.  The meaning of a line of code is what the       *)
(* interpreter does with it; a line that is no statement makes the whole   *)
(* code a SyntaxError when exec compiles it.                               *)
(***************************************************************************)
NumVal(v) == [kind |-> "num", ref |-> <<>>, num |-> v]

TableRef(k) == [kind |-> "table", ref |-> k, num |-> 0]

PrimRef(k) == [kind |-> "prim", ref |-> k, num |-> 0]

NoneVal == [kind |-> "none", ref |-> <<>>, num |-> 0]

\* a list, a tuple (items are values) and a dict (items are key and value)
ListVal(items) == [kind |-> "list", ref |-> <<>>, num |-> 0, items |-> items]

TupleVal(items) == [kind |-> "tuple", ref |-> <<>>, num |-> 0, items |-> items]

DictVal(items) == [kind |-> "dict", ref |-> <<>>, num |-> 0, items |-> items]

ResultName == <<"r", "e", "s", "u", "l", "t">>

TName == <<"t">>

ZName == <<"z">>

PdName == <<"p", "d">>

NpName == <<"n", "p">>

JsonName == <<"j", "s", "o", "n">>

\* the module objects among the safe primitives (lines 31-33): objects that
\* accept attribute assignment
ModuleNames == {PdName, NpName, JsonName}

\* the keys of self.safe_globals (lines 30-46)
SafePrimitiveNames ==
    {<<"p", "d">>,
     <<"n", "p">>,
     <<"j", "s", "o", "n">>,
     <<"p", "r", "i", "n", "t">>,
     <<"l", "e", "n">>,
     <<"s", "u", "m">>,
     <<"m", "i", "n">>,
     <<"m", "a", "x">>,
     <<"r", "o", "u", "n", "d">>,
     <<"a", "b", "s">>,
     <<"f", "l", "o", "a", "t">>,
     <<"i", "n", "t">>,
     <<"s", "t", "r">>,
     <<"l", "i", "s", "t">>,
     <<"d", "i", "c", "t">>}

\* the builtins module, which exec makes reachable from any globals dict
BuiltinNames == {<<"e", "x", "i", "t">>, <<"o", "p", "e", "n">>}

LineResult1 == <<"r", "e", "s", "u", "l", "t", "=", "1">>

LineRefZ == <<"z">>

LineBindZ == <<"z", "=", "1">>

LineBindPd == <<"p", "d", "=", "1">>

LineSetCol == <<"t", "[", "x", "]", "=", "1">>

LineResultT == <<"r", "e", "s", "u", "l", "t", "=", "t">>

LineDivZero == <<"1", "/", "0">>

LineExit == <<"e", "x", "i", "t", "(", ")">>

LinePrint == <<"p", "r", "i", "n", "t", "(", "1", ")">>

LineResultPd == <<"r", "e", "s", "u", "l", "t", "=", "p", "d">>

LineSumA == <<"r", "e", "s", "u", "l", "t", "=", "s", "u", "m", "(", "t", "[", "a", "]", ")">>

LineSetAttr == <<"p", "d", ".", "x", "=", "1">>

LineGetAttr == <<"r", "e", "s", "u", "l", "t", "=", "p", "d", ".", "x">>

Stmt(op, name, arg, num) == [op |-> op, name |-> name, arg |-> arg, num |-> num]

Meaning(line) ==
    CASE line = LineResult1 -> Stmt("assign_num", ResultName, <<>>, 1)
      [] line = LineBindZ -> Stmt("assign_num", ZName, <<>>, 1)
      [] line = LineBindPd -> Stmt("assign_num", PdName, <<>>, 1)
      [] line = LineRefZ -> Stmt("expr_name", ZName, <<>>, 0)
      [] line = LineSetCol -> Stmt("setcol", TName, <<>>, 1)
      [] line = LineResultT -> Stmt("assign_name", ResultName, TName, 0)
      [] line = LineResultPd -> Stmt("assign_name", ResultName, PdName, 0)
      [] line = LineSumA -> Stmt("assign_sum", ResultName, TName, 0)
      [] line = LineDivZero -> Stmt("divzero", <<>>, <<>>, 0)
      [] line = LineExit -> Stmt("exit", <<>>, <<>>, 0)
      [] line = LinePrint -> Stmt("print", <<>>, <<>>, 1)
      [] line = LineSetAttr -> Stmt("setattr", PdName, <<>>, 1)
      [] line = LineGetAttr -> Stmt("assign_attr", ResultName, PdName, 0)
      [] Strip(line) = <<>> -> Stmt("pass", <<>>, <<>>, 0)
      [] OTHER -> Stmt("syntaxerror", <<>>, <<>>, 0)

(***************************************************************************)
(* The interpreter behind exec(code, exec_globals) (line 390).  An         *)
(* environment holds the globals dict of the execution, the DataFrame      *)
(* objects it can reach (those of df_dict, shared by reference), the       *)
(* module objects it can reach (those the values of safe_globals refer     *)
(* to: for each the value of its attribute x, 0 when it has none), the     *)
(* text written to sys.stdout and how the execution ended.                 *)
(***************************************************************************)
NpNumVal(v) == [kind |-> "npnum", ref |-> <<>>, num |-> v]

NanVal == [kind |-> "nan", ref |-> <<>>, num |-> 0]

Running(env) == env.status = "running"

Fault(env, cls, msg) == [env EXCEPT !.status = "exception", !.cls = cls, !.msg = msg]

\* SystemExit derives from BaseException, not from Exception
Exit(env) == [env EXCEPT !.status = "baseexception", !.cls = "SystemExit", !.msg = <<>>]

\* name resolution: the globals dict, then the builtins module
Resolvable(g, name) == name \in DOMAIN g \/ name \in BuiltinNames

Resolve(g, name) == IF name \in DOMAIN g THEN g[name] ELSE PrimRef(name)

NameErrorMsg(name) == <<"name '">> \o name \o <<"' is not defined">>

Bind(g, name, v) == [n \in DOMAIN g \cup {name} |-> IF n = name THEN v ELSE g[n]]

ColIndex(df, col) == CHOOSE j \in 1..Len(df.cols) : df.cols[j] = col

HasCol(df, col) == \E j \in 1..Len(df.cols) : df.cols[j] = col

\* df[col] = v on the DataFrame object itself
SetColumn(df, col, v) ==
    IF HasCol(df, col)
    THEN [df EXCEPT !.dtypes[ColIndex(df, col)] = "int64",
                    !.rows = [i \in 1..Len(df.rows) |->
                                 [df.rows[i] EXCEPT ![ColIndex(df, col)] = Num(v)]]]
    ELSE [cols |-> Append(df.cols, col),
          dtypes |-> Append(df.dtypes, "int64"),
          rows |-> [i \in 1..Len(df.rows) |-> Append(df.rows[i], Num(v))]]

RECURSIVE SumCells(_)
SumCells(cells) == IF cells = <<>> THEN 0 ELSE Head(cells).n + SumCells(Tail(cells))

\* sum(df[col]) of a column that holds no string
SumColumn(df, col) ==
    LET cells == [i \in 1..Len(df.rows) |-> df.rows[i][ColIndex(df, col)]]
    IN  IF \E i \in 1..Len(cells) : IsNa(cells[i]) THEN NanVal
        ELSE NpNumVal(SumCells(cells))

ColumnHasStr(df, col) ==
    \E i \in 1..Len(df.rows) : df.rows[i][ColIndex(df, col)].k = "str"

\* the value is one of the module objects pd, np, json
IsModule(v) == v.kind = "prim" /\ v.ref \in ModuleNames

ExecStmt(st, env) ==
    LET g == env.globals
    IN  CASE st.op = "assign_num" ->
                [env EXCEPT !.globals = Bind(g, st.name, NumVal(st.num))]
          [] st.op = "assign_name" ->
                IF ~Resolvable(g, st.arg) THEN Fault(env, "NameError", NameErrorMsg(st.arg))
                ELSE [env EXCEPT !.globals = Bind(g, st.name, Resolve(g, st.arg))]
          [] st.op = "expr_name" ->
                IF ~Resolvable(g, st.name) THEN Fault(env, "NameError", NameErrorMsg(st.name))
                ELSE env
          [] st.op = "setcol" ->
                IF ~Resolvable(g, st.name) THEN Fault(env, "NameError", NameErrorMsg(st.name))
                ELSE IF Resolve(g, st.name).kind # "table"
                THEN Fault(env, "TypeError", <<"object does not support item assignment">>)
                ELSE LET k == Resolve(g, st.name).ref
                     IN  [env EXCEPT !.df_dict =
                             DictSet(env.df_dict, k, SetColumn(DictGet(env.df_dict, k), "x", st.num))]
          [] st.op = "assign_sum" ->
                IF ~Resolvable(g, st.arg) THEN Fault(env, "NameError", NameErrorMsg(st.arg))
                ELSE IF Resolve(g, st.arg).kind # "table"
                THEN Fault(env, "TypeError", <<"object is not subscriptable">>)
                ELSE LET df == DictGet(env.df_dict, Resolve(g, st.arg).ref)
                     IN  IF ~HasCol(df, "a") THEN Fault(env, "KeyError", <<"'a'">>)
                         ELSE IF ColumnHasStr(df, "a")
                         THEN Fault(env, "TypeError", <<"unsupported operand type(s) for +">>)
                         ELSE [env EXCEPT !.globals = Bind(g, st.name, SumColumn(df, "a"))]
          [] st.op = "setattr" ->
                IF ~Resolvable(g, st.name) THEN Fault(env, "NameError", NameErrorMsg(st.name))
                ELSE IF ~IsModule(Resolve(g, st.name))
                THEN Fault(env, "AttributeError", <<"object has no attribute 'x'">>)
                ELSE [env EXCEPT !.objects[Resolve(g, st.name).ref] = st.num]
          [] st.op = "assign_attr" ->
                IF ~Resolvable(g, st.arg) THEN Fault(env, "NameError", NameErrorMsg(st.arg))
                ELSE IF ~IsModule(Resolve(g, st.arg)) \/ env.objects[Resolve(g, st.arg).ref] = 0
                THEN Fault(env, "AttributeError", <<"object has no attribute 'x'">>)
                ELSE [env EXCEPT !.globals =
                         Bind(g, st.name, NumVal(env.objects[Resolve(g, st.arg).ref]))]
          [] st.op = "divzero" -> Fault(env, "ZeroDivisionError", <<"division by zero">>)
          [] st.op = "exit" -> Exit(env)
          [] st.op = "pass" -> env
          [] st.op = "print" ->
                [env EXCEPT !.stdout = env.stdout \o Digits(st.num) \o <<NL>>]
          [] OTHER -> Fault(env, "SyntaxError", <<"invalid syntax">>)

RECURSIVE RunStmts(_, _)
RunStmts(stmts, env) ==
    IF stmts = <<>> \/ ~Running(env) THEN env
    ELSE RunStmts(Tail(stmts), ExecStmt(Head(stmts), env))

\* exec compiles the whole code before it runs any of it
Exec(code, env) ==
    LET lines == SplitLines(code)
        stmts == [i \in 1..Len(lines) |-> Meaning(lines[i])]
    IN  IF \E i \in 1..Len(stmts) : stmts[i].op = "syntaxerror"
        THEN Fault(env, "SyntaxError", <<"invalid syntax">>)
        ELSE RunStmts(stmts, env)

(***************************************************************************)
(* Result Normalizer: AgenticAnalyst._serialize_result                     *)
(***************************************************************************)
MaxResultRows == 100

NoneResult == [kind |-> "none", num |-> 0, ref |-> <<>>, rows |-> <<>>, items |-> <<>>]

\* df.to_dict(orient='records'): one column-keyed mapping per row
ToRecords(df) ==
    [i \in 1..Len(df.rows) |->
        [j \in 1..Len(df.cols) |-> [key |-> df.cols[j], val |-> df.rows[i][j]]]]

\* df.tail(n) in the place of df.head(n)
HeadRowsTail(df, n) ==
    [df EXCEPT !.rows = SubSeq(df.rows, Len(df.rows) - Min2(n, Len(df.rows)) + 1,
                               Len(df.rows))]

\* df.head(n)
HeadRows(df, n) == [df EXCEPT !.rows = SubSeq(df.rows, 1, Min2(n, Len(df.rows)))]

\* lines 414-447.  A DataFrame is the object of df_dict the value refers
\* to.  A list and the values of a dict are normalized item by item; a
\* tuple, like every other object, is returned as it is.  (The branches
\* for Series and ndarray, lines 428-437, are not modelled: no value of
\* the model is one.)
RECURSIVE SerializeResult(_, _)
SerializeResult(v, df_dict) ==
    CASE v.kind = "none" -> NoneResult
      [] v.kind = "table" ->
            LET df == DictGet(df_dict, v.ref)
                capped == IF Len(df.rows) > MaxResultRows THEN HeadRows(df, MaxResultRows) ELSE df
            IN  [kind |-> "records", num |-> 0, ref |-> <<>>, rows |-> ToRecords(capped),
                 items |-> <<>>]
      [] v.kind = "npnum" ->
            [kind |-> "num", num |-> v.num, ref |-> <<>>, rows |-> <<>>, items |-> <<>>]
      [] v.kind = "nan" ->
            [kind |-> "nan", num |-> 0, ref |-> <<>>, rows |-> <<>>, items |-> <<>>]
      [] v.kind = "num" ->
            [kind |-> "num", num |-> v.num, ref |-> <<>>, rows |-> <<>>, items |-> <<>>]
      [] v.kind = "list" ->
            [kind |-> "list", num |-> 0, ref |-> <<>>, rows |-> <<>>,
             items |-> [i \in 1..Len(v.items) |-> SerializeResult(v.items[i], df_dict)]]
      [] v.kind = "dict" ->
            [kind |-> "dict", num |-> 0, ref |-> <<>>, rows |-> <<>>,
             items |-> [i \in 1..Len(v.items) |->
                          [key |-> v.items[i].key,
                           val |-> SerializeResult(v.items[i].val, df_dict)]]]
      [] v.kind = "tuple" ->
            [kind |-> "tuple", num |-> 0, ref |-> <<>>, rows |-> <<>>, items |-> v.items]
      [] OTHER -> [kind |-> "object", num |-> 0, ref |-> v.ref, rows |-> <<>>, items |-> <<>>]

(***************************************************************************)
(* Execution Sandbox: AgenticAnalyst._execute_code                         *)
(***************************************************************************)
\* lines 378-379: a copy of safe_globals, updated with the tables by name
BuildExecGlobals(safe_globals, df_dict) ==
    LET keys == {df_dict[i].name : i \in 1..Len(df_dict)}
    IN  [n \in DOMAIN safe_globals \cup keys |->
            IF n \in keys THEN TableRef(n) ELSE safe_globals[n]]

\* exec_globals = self.safe_globals, without the copy
SafeGlobalsAfterExecShared(safe_globals, exec_globals) == exec_globals

\* line 378: exec_globals is a copy, so the names the code binds in it never
\* reach self.safe_globals
SafeGlobalsAfterExec(safe_globals, exec_globals) == safe_globals

\* lines 401-403: the message of the exception raised for a fault
ExecutionErrorMsg(cls, msg) ==
    <<"Code execution error: ">> \o msg \o <<NL, NL, "Traceback:", NL>>
        \o <<cls, ": ">> \o msg

\* lines 367-412.  status is "returned" (the dict of lines 408-412),
\* "raised" (the Exception of line 403) or "escaped" (a BaseException that
\* the except clause of line 399 does not catch).  captured is what
\* stdout_capture holds when the execution ends, output the text the
\* outcome carries: the dict carries it (line 410), the exception raised
\* at line 403 carries the message and the traceback only.
ExecuteCode(code, safe_globals, df_dict, objects) ==
    LET exec_globals == BuildExecGlobals(safe_globals, df_dict)
        env == Exec(code, [globals |-> exec_globals, df_dict |-> df_dict,
                           objects |-> objects,
                           stdout |-> <<>>, status |-> "running",
                           cls |-> "", msg |-> <<>>])
        result == IF ResultName \in DOMAIN env.globals
                  THEN SerializeResult(env.globals[ResultName], env.df_dict)
                  ELSE NoneResult
        common == [scope |-> exec_globals,
                   df_dict |-> env.df_dict,
                   objects |-> env.objects,
                   captured |-> env.stdout,
                   safe_globals |-> SafeGlobalsAfterExec(safe_globals, env.globals)]
    IN  IF env.status = "running"
        THEN common @@ [status |-> "returned", value |-> result, output |-> env.stdout,
                        cls |-> "", error |-> <<>>]
        ELSE IF env.status = "exception"
        THEN common @@ [status |-> "raised", value |-> NoneResult, output |-> <<>>,
                        cls |-> env.cls, error |-> ExecutionErrorMsg(env.cls, env.msg)]
        ELSE common @@ [status |-> "escaped", value |-> NoneResult, output |-> <<>>,
                        cls |-> env.cls, error |-> env.msg]

(***************************************************************************)
(* Inputs: the workbooks a request may name and the texts the Code         *)
(* Generation Client may return.                                           *)
(***************************************************************************)
DataRows == << <<Num(10), NaN>>, <<Num(15), NaN>>, <<NaN, NaN>> >>

SheetT == [name |-> <<"T">>, header |-> <<"a", "b">>, rows |-> DataRows]

SheetTEmpty == [name |-> <<"T">>, header |-> <<"a">>, rows |-> << <<NaN>> >>]

SheetResult ==
    [name |-> <<"R", "e", "s", "u", "l", "t">>, header |-> <<"a">>,
     rows |-> << <<Str("Revenue")>>, <<Num(7)>> >>]

WbUnreadable == [readable |-> FALSE, sheets |-> <<>>]

WbNormal == [readable |-> TRUE, sheets |-> <<SheetT>>]

WbAllEmpty == [readable |-> TRUE, sheets |-> <<SheetTEmpty>>]

WbResult == [readable |-> TRUE, sheets |-> <<SheetT, SheetResult>>]

Workbooks == {WbUnreadable, WbNormal, WbAllEmpty, WbResult}

Lines2(a, b) == a \o <<NL>> \o b

RawTexts ==
    {LineResult1,
     LineRefZ,
     Lines2(LineBindZ, LineDivZero),
     Lines2(LineBindPd, LineDivZero),
     Lines2(LineSetCol, LineRefZ),
     Lines2(LineResult1, LineDivZero),
     LineResultT,
     LineResultPd,
     LineSumA,
     LineExit,
     LinePrint,
     Fence \o <<"p", "y", "t", "h", "o", "n", NL>> \o LineResult1 \o <<NL>> \o Fence,
     Lines2(LinePrint, LineDivZero),
     LineSetAttr,
     LineGetAttr}

\* the messages of the faults of the two collaborators
GenerationFaults == {<<"rate limit exceeded">>, <<"request timed out">>}

ExplanationFaults == {<<"explanation service unavailable">>}

ExplanationTexts == {<<"the analysis shows">>}

Query == <<"total of column a">>

(***************************************************************************)
(* Retry Controller: AgenticAnalyst.analyze, on the shared instance        *)
(* agentic_analyst.  None and an unbound local are the empty sequence; a   *)
(* value that is present is a sequence of length one.                      *)
(***************************************************************************)
MaxRequests == 2

max_attempts == 3

VARIABLES
    safe_globals,   \* self.safe_globals of the shared instance
    source,         \* excel_path of the request: the workbook it names
    requests,       \* the number of requests started on the instance
    pc,             \* where analyze is: idle, generate, execute, explain, done
    attempt,        \* the loop variable of line 76 (0-based)
    df_dict,        \* the loaded tables, shared by reference with the sandbox
    df_analysis,    \* the structural summary
    code,           \* the local code (unbound until the first generation returns)
    last_error,     \* the local last_error
    result,         \* the local result: the dict _execute_code returned
    ret,            \* what analyze returned to its caller
    raisedOut,      \* the exception analyze let through to its caller
    prompts,        \* the prompts sent to the Code Generation Client
    log,            \* the collaborator calls and executions of the request
    scopes,         \* exec_globals as built at each execution of the request
    loaded,         \* df_dict as the loader returned it
    objects,        \* the module objects pd, np, json of the process
    value,          \* the argument of a call of _serialize_result
    serialized,     \* what that call returned
    reply,          \* the argument of a call of _clean_code
    cleaned,        \* what that call, and its repetition on its result, returned
    sys_stdout,     \* sys.stdout of the process: the stream print writes to
    sys_stderr,     \* sys.stderr of the process
    streams,        \* the text written so far to each stream
    thr             \* the threads of the server running _execute_code

\* the variables of the executions that run in threads of the server
conc == <<sys_stdout, sys_stderr, streams, thr>>

\* the variables no step of analyze leaves changed: those of the calls of
\* the two pure functions and those of the executions in threads
pure == <<value, serialized, reply, cleaned, sys_stdout, sys_stderr, streams, thr>>

vars == <<safe_globals, source, requests, pc, attempt, df_dict, df_analysis, code,
          last_error, result, ret, raisedOut, prompts, log, scopes, loaded, objects,
          value, serialized, reply, cleaned, sys_stdout, sys_stderr, streams, thr>>

\* the module objects as imported: none has an attribute x
InitialObjects == [n \in ModuleNames |-> 0]

\* lines 30-46
InitialSafeGlobals == [n \in SafePrimitiveNames |-> PrimRef(n)]

NoneText == <<"N", "o", "n", "e">>

\* lines 197-211 and 320: the parts of the prompt that vary with the attempt
\* (attempt_no is attempt + 1); the temperature is in tenths
ComposePrompt(query, dfd, analysis, error_context, attempt_no) ==
    [query |-> query,
     attempt |-> attempt_no,
     of |-> max_attempts,
     error_section |->
        IF error_context # <<>> /\ attempt_no > 1
        THEN <<[error |-> error_context[1].error,
                code |-> IF error_context[1].code = <<>> THEN NoneText
                         ELSE error_context[1].code[1]]>>
        ELSE <<>>,
     analysis |-> analysis,
     dataframes |-> DictKeys(dfd),
     temperature |-> IF attempt_no > 1 THEN 1 ELSE 2]

\* lines 324-329: what _generate_analysis_code returns for the client's text
GeneratedCode(raw) == CleanCode(Strip(raw))

\* lines 118-125
FailureResult(msg) ==
    [success |-> FALSE, query |-> Query, code |-> <<>>, result |-> <<>>,
     explanation |-> <<<<"Error occurred during analysis after ">> \o Digits(max_attempts)
                         \o <<" attempts: ">> \o msg>>,
     error |-> <<msg>>, attempts |-> max_attempts]

\* lines 95-102
SuccessResult(c, r, explanation, attempt_no) ==
    [success |-> TRUE, query |-> Query, code |-> <<c>>, result |-> <<r>>,
     explanation |-> <<explanation>>, error |-> <<>>, attempts |-> attempt_no]

Event(ev, ok, c, msg, cls) ==
    [ev |-> ev, attempt |-> attempt + 1, ok |-> ok, code |-> c, error |-> msg, cls |-> cls,
     captured |-> <<>>, output |-> <<>>]

\* the event of an execution: what its buffer captured and what its
\* outcome carries of it
ExecEvent(r, c) ==
    [Event("execute", r.status = "returned", c, r.error, r.cls)
        EXCEPT !.captured = r.captured, !.output = r.output]

\* an execution that also reaches line 93 when _execute_code raised
ExecutionReturnedOrRaised(r) == r.status # "escaped"

\* line 89 returned, so that analyze goes on to line 93
ExecutionReturned(r) == r.status = "returned"

\* line 108: code if 'code' in locals() else None
CodeInLocals(c) == c

\* the handler giving up one attempt early (attempt == self.max_attempts - 2)
AttemptFailedEarly(msg, c) ==
    /\ last_error' = <<[error |-> msg, traceback |-> <<"Traceback: ">> \o msg,
                        code |-> CodeInLocals(c)]>>
    /\ IF attempt >= max_attempts - 2
       THEN /\ ret' = <<FailureResult(msg)>>
            /\ pc' = "done"
            /\ attempt' = attempt
       ELSE /\ ret' = ret
            /\ pc' = "generate"
            /\ attempt' = attempt + 1

\* lines 104-116, and 118-125 when the last attempt re-raises: c is the
\* local code as the handler finds it
AttemptFailed(msg, c) ==
    /\ last_error' = <<[error |-> msg, traceback |-> <<"Traceback: ">> \o msg,
                        code |-> CodeInLocals(c)]>>
    /\ IF attempt = max_attempts - 1
       THEN /\ ret' = <<FailureResult(msg)>>
            /\ pc' = "done"
            /\ attempt' = attempt
       ELSE /\ ret' = ret
            /\ pc' = "generate"
            /\ attempt' = attempt + 1

\* the threads of the server that run an execution
Threads == {1, 2}

\* the streams the process started with
RealStdout == <<"stdout", 0>>

RealStderr == <<"stderr", 0>>

\* output_buffer and error_buffer of the execution of thread t
OutputBuffer(t) == <<"output_buffer", t>>

ErrorBuffer(t) == <<"error_buffer", t>>

StreamIds ==
    {RealStdout, RealStderr} \cup {OutputBuffer(t) : t \in Threads}
                             \cup {ErrorBuffer(t) : t \in Threads}

\* a thread that runs no execution
IdleThread ==
    [pc |-> "idle", prints |-> 0, left |-> 0, old_stdout |-> RealStdout,
     old_stderr |-> RealStderr, output |-> <<>>]

\* the process as started: its own streams installed, nothing written, no
\* execution under way in a thread
ConcIdle ==
    /\ sys_stdout = RealStdout
    /\ sys_stderr = RealStderr
    /\ streams = [id \in StreamIds |-> <<>>]
    /\ thr = [t \in Threads |-> IdleThread]

\* no call of a pure function is under way
PureIdle ==
    /\ value = [result |-> NoneVal, frames |-> <<>>]
    /\ serialized = <<>>
    /\ reply = <<>>
    /\ cleaned = <<>>
    /\ ConcIdle

\* the instance as constructed (lines 28-47) and no request under way
NoRequest ==
    /\ safe_globals = InitialSafeGlobals
    /\ objects = InitialObjects
    /\ requests = 1
    /\ pc = "idle"
    /\ attempt = 0
    /\ df_dict = <<>>
    /\ df_analysis = <<>>
    /\ last_error = <<>>
    /\ result = <<>>
    /\ ret = <<>>
    /\ raisedOut = <<>>
    /\ prompts = <<>>
    /\ log = <<>>
    /\ scopes = <<>>
    /\ loaded = <<>>

Init ==
    /\ NoRequest
    /\ PureIdle
    /\ source \in Workbooks
    /\ code = <<>>

\* a loader fault after which analyze goes on to the attempts, without tables
LoadGoesOnAfterFault ==
    /\ pc = "idle"
    /\ LET r == LoadExcelSheets(source)
       IN  /\ df_dict' = r.df_dict
           /\ df_analysis' = AnalyzeDataframes(r.df_dict)
           /\ loaded' = IF r.ok THEN <<r.df_dict>> ELSE loaded
           /\ log' = Append(log, Event("load", r.ok, <<>>, r.error, ""))
    /\ pc' = "generate"
    /\ attempt' = 0
    /\ last_error' = <<>>
    /\ UNCHANGED <<safe_globals, source, requests, code, result, ret, raisedOut, prompts,
                   scopes, objects>>
    /\ UNCHANGED pure

\* lines 67-75; a loader fault goes straight to the handler of lines 118-125
Load ==
    /\ pc = "idle"
    /\ LET r == LoadExcelSheets(source)
       IN  IF r.ok
           THEN /\ df_dict' = r.df_dict
                /\ df_analysis' = AnalyzeDataframes(r.df_dict)
                /\ loaded' = <<r.df_dict>>
                /\ pc' = "generate"
                /\ ret' = ret
                /\ log' = Append(log, Event("load", TRUE, <<>>, <<>>, ""))
           ELSE /\ ret' = <<FailureResult(r.error)>>
                /\ pc' = "done"
                /\ log' = Append(log, Event("load", FALSE, <<>>, r.error, ""))
                /\ UNCHANGED <<df_dict, df_analysis, loaded>>
    /\ attempt' = 0
    /\ last_error' = <<>>
    /\ UNCHANGED <<safe_globals, source, requests, code, result, raisedOut, prompts, scopes,
                   objects>>
    /\ UNCHANGED pure

CurrentPrompt ==
    ComposePrompt(Query, df_dict, df_analysis,
                  IF attempt > 0 THEN last_error ELSE <<>>, attempt + 1)

\* lines 79-86 when the client returns a text
GenerateCode(raw) ==
    /\ pc = "generate"
    /\ prompts' = Append(prompts, CurrentPrompt)
    /\ code' = <<GeneratedCode(raw)>>
    /\ log' = Append(log, Event("generate", TRUE, <<GeneratedCode(raw)>>, <<>>, ""))
    /\ pc' = "execute"
    /\ UNCHANGED <<safe_globals, source, requests, attempt, df_dict, df_analysis,
                   last_error, result, ret, raisedOut, scopes, loaded, objects>>
    /\ UNCHANGED pure

\* a generation fault that does not count as an attempt
GenerateFaultUncounted(msg) ==
    /\ pc = "generate"
    /\ prompts' = Append(prompts, CurrentPrompt)
    /\ log' = Append(log, Event("generate", FALSE, <<>>, msg, "ClientError"))
    /\ last_error' = <<[error |-> msg, traceback |-> <<"Traceback: ">> \o msg,
                        code |-> CodeInLocals(code)]>>
    /\ UNCHANGED <<safe_globals, source, requests, pc, attempt, df_dict, df_analysis, code,
                   result, ret, raisedOut, scopes, loaded, objects>>
    /\ UNCHANGED pure

\* lines 79-86 when the client raises, then lines 104-116
GenerateFault(msg) ==
    /\ pc = "generate"
    /\ prompts' = Append(prompts, CurrentPrompt)
    /\ log' = Append(log, Event("generate", FALSE, <<>>, msg, "ClientError"))
    /\ AttemptFailed(msg, code)
    /\ UNCHANGED <<safe_globals, source, requests, df_dict, df_analysis, code,
                   result, raisedOut, scopes, loaded, objects>>
    /\ UNCHANGED pure

\* line 89, then lines 104-116 when _execute_code raises
Execute ==
    /\ pc = "execute"
    /\ LET r == ExecuteCode(code[1], safe_globals, df_dict, objects)
       IN  /\ df_dict' = r.df_dict
           /\ objects' = r.objects
           /\ safe_globals' = r.safe_globals
           /\ scopes' = Append(scopes, r.scope)
           /\ log' = Append(log, ExecEvent(r, code))
           /\ CASE ExecutionReturned(r) ->
                      /\ result' = <<[value |-> r.value, output |-> r.output,
                                      errors |-> <<>>]>>
                      /\ pc' = "explain"
                      /\ UNCHANGED <<attempt, last_error, ret, raisedOut>>
                [] r.status = "raised" ->
                      /\ AttemptFailed(r.error, code)
                      /\ UNCHANGED <<result, raisedOut>>
                [] OTHER ->
                      /\ raisedOut' = <<r.cls>>
                      /\ pc' = "done"
                      /\ UNCHANGED <<attempt, last_error, result, ret>>
    /\ UNCHANGED <<source, requests, df_analysis, code, prompts, loaded>>
    /\ UNCHANGED pure

\* line 468: json.dumps of a value the normalizer passed through as it is
Serializable(r) == r.value.kind # "object"

\* line 93 when the Explanation Client returns a text, then lines 95-102
ExplainOk(text) ==
    /\ pc = "explain"
    /\ Serializable(result[1])
    /\ log' = Append(log, Event("explain", TRUE, code, <<>>, ""))
    /\ ret' = <<SuccessResult(code[1], result[1], text, attempt + 1)>>
    /\ pc' = "done"
    /\ UNCHANGED <<safe_globals, source, requests, attempt, df_dict, df_analysis, code,
                   last_error, result, raisedOut, prompts, scopes, loaded, objects>>
    /\ UNCHANGED pure

\* line 93 when the Explanation Client raises, then lines 104-116
ExplainFault(msg) ==
    /\ pc = "explain"
    /\ Serializable(result[1])
    /\ log' = Append(log, Event("explain", FALSE, code, msg, "ClientError"))
    /\ AttemptFailed(msg, code)
    /\ UNCHANGED <<safe_globals, source, requests, df_dict, df_analysis, code,
                   result, raisedOut, prompts, scopes, loaded, objects>>
    /\ UNCHANGED pure

\* line 93 when json.dumps raises before the client is called
ExplainUnserializable ==
    /\ pc = "explain"
    /\ ~Serializable(result[1])
    /\ log' = Append(log, Event("dumps", FALSE, code,
                                <<"Object of type module is not JSON serializable">>,
                                "TypeError"))
    /\ AttemptFailed(<<"Object of type module is not JSON serializable">>, code)
    /\ UNCHANGED <<safe_globals, source, requests, df_dict, df_analysis, code,
                   result, raisedOut, prompts, scopes, loaded, objects>>
    /\ UNCHANGED pure

\* the next request on the shared instance: the locals of analyze are new,
\* self.safe_globals is the one of the instance
NewRequest ==
    /\ pc = "done"
    /\ requests < MaxRequests
    /\ requests' = requests + 1
    /\ source' \in Workbooks
    /\ pc' = "idle"
    /\ attempt' = 0
    /\ df_dict' = <<>>
    /\ df_analysis' = <<>>
    /\ code' = <<>>
    /\ last_error' = <<>>
    /\ result' = <<>>
    /\ ret' = <<>>
    /\ raisedOut' = <<>>
    /\ prompts' = <<>>
    /\ log' = <<>>
    /\ scopes' = <<>>
    /\ loaded' = <<>>
    /\ UNCHANGED <<safe_globals, objects>>
    /\ UNCHANGED pure

Next ==
    \/ Load
    \/ \E raw \in RawTexts : GenerateCode(raw)
    \/ \E msg \in GenerationFaults : GenerateFault(msg)
    \/ Execute
    \/ \E text \in ExplanationTexts : ExplainOk(text)
    \/ \E msg \in ExplanationFaults : ExplainFault(msg)
    \/ ExplainUnserializable
    \/ NewRequest

Spec == Init /\ [][Next]_vars

\* a step of analyze.  analyze runs in one thread and every call it makes
\* is synchronous: once the collaborator it waits for has returned or
\* faulted, its next step is taken.  The arrival of a further request is
\* not such a step.
AnalyzeStep ==
    \/ Load
    \/ \E raw \in RawTexts : GenerateCode(raw)
    \/ \E msg \in GenerationFaults : GenerateFault(msg)
    \/ Execute
    \/ \E text \in ExplanationTexts : ExplainOk(text)
    \/ \E msg \in ExplanationFaults : ExplainFault(msg)
    \/ ExplainUnserializable

FairSpec == Init /\ [][Next]_vars /\ WF_vars(AnalyzeStep)

(***************************************************************************)
(* execute_custom_code (routes/chatbot.py lines 379-395), on the same      *)
(* shared instance: code is the caller's text, source the workbook of the  *)
(* report.  The handler has no await between its first and last line, so   *)
(* a call is one step.  The checks of lines 355-377 (user, report, file)   *)
(* have passed.                                                            *)
(***************************************************************************)
\* lines 386-389
RawSuccess(r) == [success |-> TRUE, result |-> <<r>>, error |-> <<>>]

\* lines 391-395
RawFailure(msg) == [success |-> FALSE, result |-> <<>>, error |-> <<msg>>]

InitRaw ==
    /\ NoRequest
    /\ PureIdle
    /\ source \in Workbooks
    /\ code \in {<<c>> : c \in RawTexts}

ExecuteCustomCode ==
    /\ pc = "idle"
    /\ LET l == LoadExcelSheets(source)
       IN  IF ~l.ok
           THEN /\ ret' = <<RawFailure(l.error)>>
                /\ log' = Append(log, Event("load", FALSE, <<>>, l.error, ""))
                /\ UNCHANGED <<safe_globals, df_dict, loaded, objects, scopes, result,
                               raisedOut>>
           ELSE LET r == ExecuteCode(code[1], safe_globals, l.df_dict, objects)
                IN  /\ loaded' = <<l.df_dict>>
                    /\ df_dict' = r.df_dict
                    /\ objects' = r.objects
                    /\ safe_globals' = r.safe_globals
                    /\ scopes' = Append(scopes, r.scope)
                    /\ log' = log \o <<Event("load", TRUE, <<>>, <<>>, ""),
                                       ExecEvent(r, code)>>
                    /\ CASE r.status = "returned" ->
                               /\ result' = <<[value |-> r.value, output |-> r.output,
                                               errors |-> <<>>]>>
                               /\ ret' = <<RawSuccess(result'[1])>>
                               /\ UNCHANGED raisedOut
                         [] r.status = "raised" ->
                               /\ ret' = <<RawFailure(r.error)>>
                               /\ UNCHANGED <<result, raisedOut>>
                         [] OTHER ->
                               /\ raisedOut' = <<r.cls>>
                               /\ UNCHANGED <<result, ret>>
    /\ pc' = "done"
    /\ UNCHANGED <<source, requests, attempt, df_analysis, code, last_error, prompts>>
    /\ UNCHANGED pure

\* the next call of the endpoint
NewRawRequest ==
    /\ pc = "done"
    /\ requests < MaxRequests
    /\ requests' = requests + 1
    /\ source' \in Workbooks
    /\ code' \in {<<c>> : c \in RawTexts}
    /\ pc' = "idle"
    /\ df_dict' = <<>>
    /\ result' = <<>>
    /\ ret' = <<>>
    /\ raisedOut' = <<>>
    /\ log' = <<>>
    /\ scopes' = <<>>
    /\ loaded' = <<>>
    /\ UNCHANGED <<safe_globals, objects, attempt, df_analysis, last_error, prompts>>
    /\ UNCHANGED pure

NextRaw == ExecuteCustomCode \/ NewRawRequest

SpecRaw == InitRaw /\ [][NextRaw]_vars

(***************************************************************************)
(* Calls of _load_excel_sheets on workbooks of several sheets, each        *)
(* followed by the construction of the scope of an execution               *)
(* (_execute_code lines 378-379).  The sheets of a workbook have           *)
(* different names.                                                        *)
(***************************************************************************)
MaxSheets == 3

SheetPSpaceL == [name |-> <<"P", " ", "L">>, header |-> <<"a">>, rows |-> << <<Num(1)>> >>]

SheetPDashL == [name |-> <<"P", "-", "L">>, header |-> <<"a">>, rows |-> << <<Num(2)>> >>]

SheetSum == [name |-> <<"S", "u", "m">>, header |-> <<"a">>, rows |-> << <<Num(3)>> >>]

LoaderSheets == {SheetT, SheetTEmpty, SheetResult, SheetPSpaceL, SheetPDashL, SheetSum}

LoaderWorkbooks ==
    {WbUnreadable} \cup
    {[readable |-> TRUE, sheets |-> ss] :
        ss \in {q \in UNION {[1..k -> LoaderSheets] : k \in 1..MaxSheets} :
                   \A i \in 1..Len(q) : \A j \in 1..Len(q) :
                       i # j => q[i].name # q[j].name}}

InitLoad ==
    /\ NoRequest
    /\ PureIdle
    /\ code = <<>>
    /\ source \in LoaderWorkbooks

\* the call of lines 127-143: it returns the tables or raises
LoadSheets ==
    /\ pc = "idle"
    /\ LET r == LoadExcelSheets(source)
       IN  IF r.ok
           THEN /\ df_dict' = r.df_dict
                /\ loaded' = <<r.df_dict>>
                /\ pc' = "loaded"
                /\ UNCHANGED raisedOut
           ELSE /\ raisedOut' = <<"Exception">>
                /\ pc' = "done"
                /\ UNCHANGED <<df_dict, loaded>>
    /\ UNCHANGED <<safe_globals, source, requests, attempt, df_analysis, code, last_error,
                   result, ret, prompts, log, scopes, objects>>
    /\ UNCHANGED pure

\* lines 378-379 on the tables loaded
BuildScope ==
    /\ pc = "loaded"
    /\ scopes' = Append(scopes, BuildExecGlobals(safe_globals, df_dict))
    /\ pc' = "done"
    /\ UNCHANGED <<safe_globals, source, requests, attempt, df_dict, df_analysis, code,
                   last_error, result, ret, raisedOut, prompts, log, loaded, objects>>
    /\ UNCHANGED pure

NextLoad == LoadSheets \/ BuildScope

SpecLoad == InitLoad /\ [][NextLoad]_vars

(***************************************************************************)
(* Calls of _serialize_result on values that hold a DataFrame of n rows    *)
(***************************************************************************)
\* the variables of the instance and of its requests
controller == <<safe_globals, source, requests, pc, attempt, df_dict, df_analysis, code,
                last_error, result, ret, raisedOut, prompts, log, scopes, loaded, objects>>

MaxRows == 102

LargeRows == 500

\* a DataFrame of one column a whose row i holds the number i
FrameOfRows(n) ==
    [cols |-> <<"a">>, dtypes |-> <<"int64">>, rows |-> [i \in 1..n |-> <<Num(i)>>]]

KeyK == <<"k">>

\* the DataFrame itself, in a list, after a number in a list, as a value
\* of a dict, in a dict in a list, in a list in a dict, and in a tuple; a
\* numpy number in a tuple; the DataFrame in a tuple in a list
ResultShapes ==
    {TableRef(TName),
     ListVal(<<TableRef(TName)>>),
     ListVal(<<NpNumVal(1), TableRef(TName)>>),
     DictVal(<<[key |-> KeyK, val |-> TableRef(TName)]>>),
     ListVal(<<DictVal(<<[key |-> KeyK, val |-> TableRef(TName)]>>)>>),
     DictVal(<<[key |-> KeyK, val |-> ListVal(<<TableRef(TName)>>)]>>),
     TupleVal(<<TableRef(TName)>>),
     TupleVal(<<NpNumVal(1)>>),
     ListVal(<<TupleVal(<<TableRef(TName)>>)>>)}

NormalizerInputs ==
    {[result |-> v, frames |-> <<[name |-> TName, df |-> FrameOfRows(n)]>>] :
        v \in ResultShapes, n \in (0..MaxRows) \cup {LargeRows}}

InitNormalize ==
    /\ NoRequest
    /\ source = WbUnreadable
    /\ code = <<>>
    /\ value \in NormalizerInputs
    /\ serialized = <<>>
    /\ reply = <<>>
    /\ cleaned = <<>>
    /\ ConcIdle

Serialize ==
    /\ serialized = <<>>
    /\ serialized' = <<SerializeResult(value.result, value.frames)>>
    /\ UNCHANGED <<value, reply, cleaned>>
    /\ UNCHANGED conc
    /\ UNCHANGED controller

NextNormalize == Serialize

SpecNormalize == InitNormalize /\ [][NextNormalize]_vars

(***************************************************************************)
(* Calls of _clean_code on a reply, then on what it returned               *)
(***************************************************************************)
MaxLines == 4

\* lines of a reply: fences, a conversational line, code, other text, a
\* blank line, an indented comment, a line that ends in a fence, an
\* assignment to the name I and a call of print
SampleLines ==
    {Fence,
     FencePython,
     <<"I", " ", "a">>,
     <<"a", "=", "1">>,
     <<"a">>,
     <<>>,
     <<" ", "#">>,
     <<"a">> \o Fence,
     <<"I", " ", "=", "1">>,
     LinePrint}

CleanInputs ==
    {JoinLines(ls) : ls \in UNION {[1..k -> SampleLines] : k \in 1..MaxLines}}

InitClean ==
    /\ NoRequest
    /\ source = WbUnreadable
    /\ code = <<>>
    /\ value = [result |-> NoneVal, frames |-> <<>>]
    /\ serialized = <<>>
    /\ reply \in CleanInputs
    /\ cleaned = <<>>
    /\ ConcIdle

Clean ==
    /\ Len(cleaned) < 2
    /\ cleaned' = Append(cleaned, CleanCode(IF cleaned = <<>> THEN reply
                                            ELSE cleaned[Len(cleaned)]))
    /\ UNCHANGED <<value, serialized, reply>>
    /\ UNCHANGED conc
    /\ UNCHANGED controller

NextClean == Clean

SpecClean == InitClean /\ [][NextClean]_vars

(***************************************************************************)
(* Executions in threads.  agentic_analyst_endpoint is a plain def, which  *)
(* the server runs in a thread of its pool, so two requests to it run      *)
(* _execute_code of the one instance at the same time, and either runs     *)
(* beside an execution started on the event loop.  Each execution creates  *)
(* its two buffers and enters redirect_stdout and redirect_stderr, which   *)
(* save the stream installed in sys and install the buffer; print writes   *)
(* to the stream installed when it is called; leaving the with statement   *)
(* installs the saved streams again, the inner one first.  sys is one per  *)
(* process, and a step of another thread may fall between any two of       *)
(* these.                                                                  *)
(***************************************************************************)
\* the most calls of print the code of one execution makes
MaxPrints == 2

\* what a call print(t) in the code of thread t writes
Printed(t) == Digits(t) \o <<NL>>

\* the text n calls of print(t) write
RECURSIVE OwnText(_, _)
OwnText(t, n) == IF n = 0 THEN <<>> ELSE OwnText(t, n - 1) \o Printed(t)

InitConc ==
    /\ NoRequest
    /\ source = WbUnreadable
    /\ code = <<>>
    /\ PureIdle

\* _execute_code is called with code that prints n times: lines 378-383
BeginExecuteCode(t, n) ==
    /\ thr[t].pc = "idle"
    /\ thr' = [thr EXCEPT ![t] = [IdleThread EXCEPT !.pc = "save_stdout",
                                                     !.prints = n, !.left = n]]
    /\ UNCHANGED <<sys_stdout, sys_stderr, streams>>
    /\ UNCHANGED <<value, serialized, reply, cleaned>>
    /\ UNCHANGED controller

\* redirect_stdout.__enter__ reads sys.stdout
SaveStdout(t) ==
    /\ thr[t].pc = "save_stdout"
    /\ thr' = [thr EXCEPT ![t].old_stdout = sys_stdout, ![t].pc = "install_stdout"]
    /\ UNCHANGED <<sys_stdout, sys_stderr, streams>>
    /\ UNCHANGED <<value, serialized, reply, cleaned>>
    /\ UNCHANGED controller

\* and sets it to output_buffer
InstallStdout(t) ==
    /\ thr[t].pc = "install_stdout"
    /\ sys_stdout' = OutputBuffer(t)
    /\ thr' = [thr EXCEPT ![t].pc = "save_stderr"]
    /\ UNCHANGED <<sys_stderr, streams>>
    /\ UNCHANGED <<value, serialized, reply, cleaned>>
    /\ UNCHANGED controller

\* redirect_stderr.__enter__ reads sys.stderr
SaveStderr(t) ==
    /\ thr[t].pc = "save_stderr"
    /\ thr' = [thr EXCEPT ![t].old_stderr = sys_stderr, ![t].pc = "install_stderr"]
    /\ UNCHANGED <<sys_stdout, sys_stderr, streams>>
    /\ UNCHANGED <<value, serialized, reply, cleaned>>
    /\ UNCHANGED controller

\* and sets it to error_buffer
InstallStderr(t) ==
    /\ thr[t].pc = "install_stderr"
    /\ sys_stderr' = ErrorBuffer(t)
    /\ thr' = [thr EXCEPT ![t].pc = "exec"]
    /\ UNCHANGED <<sys_stdout, streams>>
    /\ UNCHANGED <<value, serialized, reply, cleaned>>
    /\ UNCHANGED controller

\* exec runs a call of print: the text goes to the stream sys.stdout is now
ExecPrint(t) ==
    /\ thr[t].pc = "exec"
    /\ thr[t].left > 0
    /\ streams' = [streams EXCEPT ![sys_stdout] = @ \o Printed(t)]
    /\ thr' = [thr EXCEPT ![t].left = @ - 1]
    /\ UNCHANGED <<sys_stdout, sys_stderr>>
    /\ UNCHANGED <<value, serialized, reply, cleaned>>
    /\ UNCHANGED controller

\* exec is over: redirect_stderr.__exit__ installs the stream it saved
RestoreStderr(t) ==
    /\ thr[t].pc = "exec"
    /\ thr[t].left = 0
    /\ sys_stderr' = thr[t].old_stderr
    /\ thr' = [thr EXCEPT ![t].pc = "restore_stdout"]
    /\ UNCHANGED <<sys_stdout, streams>>
    /\ UNCHANGED <<value, serialized, reply, cleaned>>
    /\ UNCHANGED controller

\* redirect_stdout.__exit__ installs the stream it saved
RestoreStdout(t) ==
    /\ thr[t].pc = "restore_stdout"
    /\ sys_stdout' = thr[t].old_stdout
    /\ thr' = [thr EXCEPT ![t].pc = "getvalue"]
    /\ UNCHANGED <<sys_stderr, streams>>
    /\ UNCHANGED <<value, serialized, reply, cleaned>>
    /\ UNCHANGED controller

\* output = output_buffer.getvalue(), and the result is returned
GetValue(t) ==
    /\ thr[t].pc = "getvalue"
    /\ thr' = [thr EXCEPT ![t].output = streams[OutputBuffer(t)], ![t].pc = "returned"]
    /\ UNCHANGED <<sys_stdout, sys_stderr, streams>>
    /\ UNCHANGED <<value, serialized, reply, cleaned>>
    /\ UNCHANGED controller

NextConc ==
    \E t \in Threads :
        \/ \E n \in 0..MaxPrints : BeginExecuteCode(t, n)
        \/ SaveStdout(t)
        \/ InstallStdout(t)
        \/ SaveStderr(t)
        \/ InstallStderr(t)
        \/ ExecPrint(t)
        \/ RestoreStderr(t)
        \/ RestoreStdout(t)
        \/ GetValue(t)

SpecConc == InitConc /\ [][NextConc]_vars

(***************************************************************************)
(* Properties                                                              *)
(***************************************************************************)
LogIdx == 1..Len(log)

\* the events of attempt k (1-based) of the request
FaultEvents(k) ==
    {i \in LogIdx : log[i].attempt = k /\ ~log[i].ok /\ log[i].ev # "load"}

\* attempt k ended in a generation fault or in an execution fault that the
\* sandbox raised as an Exception
FaultedInGenOrExec(k) ==
    \E i \in FaultEvents(k) :
        /\ log[i].ev \in {"generate", "execute"}
        /\ log[i].cls # "SystemExit"

FaultMsgOf(k) == log[CHOOSE i \in FaultEvents(k) : TRUE].error

AttemptsStarted == Len(prompts)

\* the code the generation call of attempt k returned, if it returned
CodeOfAttempt(k) ==
    LET gen == {i \in LogIdx : log[i].attempt = k /\ log[i].ev = "generate" /\ log[i].ok}
    IN  IF gen = {} THEN <<>> ELSE log[CHOOSE i \in gen : TRUE].code

C2_NoAttemptAfterSuccess ==
    \A i \in LogIdx : \A j \in LogIdx :
        (i < j /\ log[i].ev = "execute" /\ log[i].ok)
        => log[j].ev \notin {"generate", "execute"}

\* C3: when the Explanation Client faults after a successful execution,
\* analyze returns success true with the code and the result of that attempt.
C3_ExplanationFaultKeepsSuccess ==
    \A i \in LogIdx :
        (log[i].ev = "explain" /\ ~log[i].ok)
        => /\ pc = "done"
           /\ ret # <<>>
           /\ ret[1].success
           /\ ret[1].code = log[i].code
           /\ ret[1].attempts = log[i].attempt

\* C4: the prompt of every attempt k > 1 carries the error message of attempt
\* k - 1 and the code of attempt k - 1, never the code of an earlier attempt:
\* where attempt k - 1 produced no code, the prompt shows none.
C4_PromptCarriesPrecedingFailure ==
    \A k \in 2..Len(prompts) :
        /\ prompts[k].error_section # <<>>
        /\ prompts[k].error_section[1].error = FaultMsgOf(k - 1)
        /\ prompts[k].error_section[1].code =
              IF CodeOfAttempt(k - 1) = <<>> THEN NoneText ELSE CodeOfAttempt(k - 1)[1]

\* C5: once the tables are loaded, analyze ends by returning a result: no
\* fault of the generated code reaches the caller as an exception.
C5_NoFaultReachesCaller ==
    (loaded # <<>> /\ pc = "done") => (ret # <<>> /\ raisedOut = <<>>)

AllTablesEmpty(wb) ==
    /\ wb.readable
    /\ \A i \in 1..Len(wb.sheets) :
          IsEmptyDf(DropNaCols(DropNaRows(ReadExcel(wb.sheets[i]))))

\* C7: when the source holds only empty tables the request ends before any
\* attempt: the Code Generation Client is never called.
C7_EmptyTableSetStopsRequest ==
    AllTablesEmpty(source) => (prompts = <<>> /\ pc \in {"idle", "done"})

\* the code has a statement that assigns the result binding
AssignsResult(c) ==
    \E i \in 1..Len(SplitLines(c)) :
        LET st == Meaning(SplitLines(c)[i])
        IN  st.op \in {"assign_num", "assign_name", "assign_sum"} /\ st.name = ResultName

\* C8: an execution that ends without fault and whose code never assigns the
\* result binding reports an empty result.
C8_UnsetResultIsEmpty ==
    (pc = "explain" /\ ~AssignsResult(code[1])) => result[1].value = NoneResult

\* the names of the tables the loader returned
LoadedNames == {loaded[1][i].name : i \in 1..Len(loaded[1])}

\* C9: the scope of every execution holds exactly the safe primitives, bound
\* to their baseline objects, and the tables of the request; a name an
\* earlier attempt or request bound is not in it, so every execution of code
\* that references the unbound name z fails with a NameError.
C9_FreshScopePerAttempt ==
    /\ \A i \in 1..Len(scopes) :
          /\ DOMAIN scopes[i] = SafePrimitiveNames \cup LoadedNames
          /\ \A n \in SafePrimitiveNames \ LoadedNames : scopes[i][n] = PrimRef(n)
          /\ \A n \in LoadedNames : scopes[i][n] = TableRef(n)
    /\ \A i \in LogIdx :
          (log[i].ev = "execute" /\ log[i].code = <<LineRefZ>>)
          => (~log[i].ok /\ log[i].cls = "NameError")

\* C9 witness: an attempt bound z and the result binding before it failed,
\* and the next attempt, which references z, failed with NameError all the same
C9_Witness ==
    \E i \in LogIdx : \E j \in LogIdx :
        /\ i < j
        /\ log[i].ev = "execute"
        /\ log[i].code = <<Lines2(LineBindZ, LineDivZero)>>
        /\ log[j].ev = "execute"
        /\ log[j].attempt = log[i].attempt + 1
        /\ log[j].code = <<LineRefZ>>
        /\ log[j].cls = "NameError"

\* C10: the tables are never changed by generated code: at every moment of
\* the request they are as the loader returned them.
C10_TablesNeverMutated ==
    loaded # <<>> => df_dict = loaded[1]

\* the names that the code of the model refers to
KnownNames == SafePrimitiveNames \cup BuiltinNames \cup {TName, ZName, ResultName}

\* C11: in the scope of every execution the names that resolve are exactly
\* the fifteen safe primitives and the names of the request's tables: no
\* other name of the host, such as the builtins exit and open, resolves.
C11_OnlyWhitelistResolves ==
    \A i \in 1..Len(scopes) :
        {n \in KnownNames \cup LoadedNames : Resolvable(scopes[i], n)}
            = SafePrimitiveNames \cup LoadedNames

\* the value is a DataFrame, or a list or a dict whose items are such values
RECURSIVE HoldsOnlyFrames(_)
HoldsOnlyFrames(v) ==
    CASE v.kind = "table" -> TRUE
      [] v.kind = "npnum" -> TRUE
      [] v.kind = "list" -> \A i \in 1..Len(v.items) : HoldsOnlyFrames(v.items[i])
      [] v.kind = "dict" -> \A i \in 1..Len(v.items) : HoldsOnlyFrames(v.items[i].val)
      [] OTHER -> FALSE

\* the row lists of a normalized value, at any depth
RECURSIVE RowLists(_)
RowLists(out) ==
    CASE out.kind = "records" -> {out.rows}
      [] out.kind = "list" -> UNION {RowLists(out.items[i]) : i \in 1..Len(out.items)}
      [] out.kind = "dict" -> UNION {RowLists(out.items[i].val) : i \in 1..Len(out.items)}
      [] OTHER -> {}

\* the number of rows of the DataFrame given to the normalizer
RowsGiven == Len(value.frames[1].df.rows)

\* C12: normalizing a DataFrame of n rows, alone or nested in a list or in
\* a dict, yields a row list of exactly min(n, 100) rows: row i of the
\* list is row i of the DataFrame, for i = 1..min(n, 100).
C12_RowListIsFirstHundred ==
    (serialized # <<>> /\ HoldsOnlyFrames(value.result))
    => RowLists(serialized[1]) =
          {[i \in 1..Min2(RowsGiven, 100) |-> <<[key |-> "a", val |-> Num(i)]>>]}

\* C12 witness: a DataFrame of 500 rows nested in a dict in a list came out
\* as a list of 100 rows
C12_Witness ==
    /\ serialized # <<>>
    /\ RowsGiven = 500
    /\ value.result = ListVal(<<DictVal(<<[key |-> KeyK, val |-> TableRef(TName)]>>)>>)
    /\ Len(serialized[1].items[1].items[1].val.rows) = 100
    /\ serialized[1].items[1].items[1].val.rows[100] = <<[key |-> "a", val |-> Num(100)]>>

\* C13: the sanitizer applied to its own result returns that result.
C13_SanitizerIdempotent ==
    Len(cleaned) = 2 => cleaned[2] = cleaned[1]

\* C13 witness: a reply of a preamble line, a closed fenced block and a
\* further, unclosed fence has been sanitized twice
C13_Witness ==
    /\ Len(cleaned) = 2
    /\ reply = JoinLines(<<<<"I", " ", "a">>, Fence, <<"a">> \o Fence, Fence>>)
    /\ cleaned[1] = <<"a">>
    /\ cleaned[2] = <<"a">>

\* C14: a call of execute_custom_code whose tables loaded has executed the
\* caller's code exactly once, has called neither the Code Generation
\* Client nor the Explanation Client, and has returned: success true when
\* the execution ended without fault, success false with the error when it
\* faulted.
C14_RawExecutesOnceAndReturns ==
    (pc = "done" /\ loaded # <<>>)
    => /\ Cardinality({i \in LogIdx : log[i].ev = "execute"}) = 1
       /\ \A i \in LogIdx : log[i].ev \in {"load", "execute"}
       /\ prompts = <<>>
       /\ raisedOut = <<>>
       /\ ret # <<>>
       /\ \A i \in LogIdx :
             log[i].ev = "execute"
             => /\ log[i].code = code
                /\ ret[1].success = log[i].ok
                /\ (~log[i].ok => ret[1].error = <<log[i].error>>)

\* C15: every call of the Explanation Client directly follows a sandbox
\* execution of the same attempt that ended without fault.
C15_ExplainOnlyAfterSuccess ==
    \A i \in LogIdx :
        log[i].ev = "explain"
        => /\ i > 1
           /\ log[i - 1].ev = "execute"
           /\ log[i - 1].ok
           /\ log[i - 1].attempt = log[i].attempt
           /\ \A j \in 1..(i - 1) : log[j].attempt = log[i].attempt => log[j].ok

\* C15 witness: the first attempt faulted in generation, the second in
\* execution, and the Explanation Client was called in the third
C15_Witness ==
    \E i \in LogIdx :
        /\ log[i].ev = "explain"
        /\ log[i].attempt = 3
        /\ \E j \in LogIdx : log[j].attempt = 1 /\ log[j].ev = "generate" /\ ~log[j].ok
        /\ \E j \in LogIdx : log[j].attempt = 2 /\ log[j].ev = "execute" /\ ~log[j].ok

\* C16: the attempts of every result analyze returns is the number of
\* attempts the request started: the winning attempt's index on success,
\* the count of started attempts on failure.
C16_AttemptsIsAttemptsConsumed ==
    (pc = "done" /\ ret # <<>>) => ret[1].attempts = AttemptsStarted

\* C17: a fault of the Code Generation Client at attempt k is handled as an
\* execution fault is: attempt k executes no code, the fault is the
\* attempt's recorded error, the next call is the generation call of
\* attempt k + 1 when k < max_attempts, and when k = max_attempts analyze
\* returns the failure with that error; a request makes at most
\* max_attempts generation calls.
C17_GenerationFaultCountsAsAttempt ==
    /\ Cardinality({i \in LogIdx : log[i].ev = "generate"}) <= max_attempts
    /\ \A i \in LogIdx :
          (log[i].ev = "generate" /\ ~log[i].ok)
          => LET k == log[i].attempt
             IN  /\ \A j \in LogIdx : log[j].attempt = k => log[j].ev # "execute"
                 /\ (i = Len(log)) => (last_error # <<>> /\ last_error[1].error = log[i].error)
                 /\ (k < max_attempts /\ i = Len(log))
                    => (pc = "generate" /\ attempt + 1 = k + 1 /\ ret = <<>>)
                 /\ (k < max_attempts /\ i < Len(log))
                    => (log[i + 1].ev = "generate" /\ log[i + 1].attempt = k + 1)
                 /\ (k = max_attempts)
                    => /\ i = Len(log)
                       /\ pc = "done"
                       /\ raisedOut = <<>>
                       /\ ret # <<>>
                       /\ ~ret[1].success
                       /\ ret[1].error = <<log[i].error>>

\* C17 witness: the client faulted at attempt 1, an execution faulted at
\* attempt 2, the client faulted again at attempt 3 and analyze returned
\* the failure
C17_Witness ==
    /\ pc = "done"
    /\ ret # <<>>
    /\ Len(log) = 5
    /\ log[2].ev = "generate" /\ ~log[2].ok /\ log[2].attempt = 1
    /\ log[4].ev = "execute" /\ ~log[4].ok /\ log[4].attempt = 2
    /\ log[5].ev = "generate" /\ ~log[5].ok /\ log[5].attempt = 3
    /\ ret[1].error = <<log[5].error>>

\* C18: a request that has ended has produced exactly one result.
C18_ExactlyOneResult ==
    pc = "done" => Len(ret) = 1

\* C19: no execution observes an attribute that the code of an earlier
\* execution set on a module object: pd as imported has no attribute x, so
\* every execution of the code that reads pd.x ends in an AttributeError.
C19_PrimitiveObjectsStayBaseline ==
    \A i \in LogIdx :
        (log[i].ev = "execute" /\ log[i].code = <<LineGetAttr>>)
        => (~log[i].ok /\ log[i].cls = "AttributeError")

\* C20: the outcome of every execution, faulted or not, carries the text
\* the execution wrote to standard output.
C20_OutcomeCarriesCapturedOutput ==
    \A i \in LogIdx :
        log[i].ev = "execute" => log[i].output = log[i].captured

\* a Python value that is text, a number, None, or a sequence or mapping
\* of such values: no DataFrame, no numpy number, no other object
RECURSIVE IsPlainValue(_)
IsPlainValue(v) ==
    CASE v.kind \in {"none", "num"} -> TRUE
      [] v.kind \in {"list", "tuple"} -> \A i \in 1..Len(v.items) : IsPlainValue(v.items[i])
      [] v.kind = "dict" -> \A i \in 1..Len(v.items) : IsPlainValue(v.items[i].val)
      [] OTHER -> FALSE

\* a normalized value that is a transport value at every depth
RECURSIVE IsTransport(_)
IsTransport(out) ==
    CASE out.kind \in {"none", "num", "nan", "records"} -> TRUE
      [] out.kind = "list" -> \A i \in 1..Len(out.items) : IsTransport(out.items[i])
      [] out.kind = "dict" -> \A i \in 1..Len(out.items) : IsTransport(out.items[i].val)
      [] out.kind = "tuple" -> \A i \in 1..Len(out.items) : IsPlainValue(out.items[i])
      [] OTHER -> FALSE

\* C21: what the normalizer returns holds only text, numbers, None,
\* mappings and sequences at every depth: no DataFrame and no numpy number
\* is left in it, inside a tuple included.
C21_TransportAtEveryDepth ==
    serialized # <<>> => IsTransport(serialized[1])

\* the line is a fence delimiter on its own
IsFenceLine(l) == l \in {Fence, FencePython, FencePy}

\* the nesting depth after the first i lines: a tagged fence opens a block,
\* a bare fence closes the open block or, when none is open, opens one
RECURSIVE DepthAfter(_, _)
DepthAfter(lines, i) ==
    IF i = 0 THEN 0
    ELSE LET d == DepthAfter(lines, i - 1)
         IN  IF lines[i] \in {FencePython, FencePy} THEN d + 1
             ELSE IF lines[i] = Fence THEN (IF d > 0 THEN d - 1 ELSE d + 1)
             ELSE d

\* the lines that open a block at the greatest depth of the reply
DeepestOpeners(lines) ==
    {i \in 1..Len(lines) :
        /\ DepthAfter(lines, i) > DepthAfter(lines, i - 1)
        /\ \A j \in 1..Len(lines) : DepthAfter(lines, j) <= DepthAfter(lines, i)}

\* the fence lines after line i
FenceLinesAfter(lines, i) == {j \in (i + 1)..Len(lines) : IsFenceLine(lines[j])}

\* the content of the first block at the greatest depth, when it is closed
InnermostContent(lines) ==
    LET o == CHOOSE i \in DeepestOpeners(lines) : \A k \in DeepestOpeners(lines) : i <= k
        c == CHOOSE j \in FenceLinesAfter(lines, o) :
                \A k \in FenceLinesAfter(lines, o) : j <= k
    IN  JoinLines(SubSeq(lines, o + 1, c - 1))

\* every fence of the reply is a line on its own, there are several of
\* them, and the first block at the greatest depth is closed
SeveralFenceLines(lines) ==
    /\ \A i \in 1..Len(lines) : Contains(lines[i], Fence) => IsFenceLine(lines[i])
    /\ Cardinality({i \in 1..Len(lines) : IsFenceLine(lines[i])}) >= 2
    /\ DeepestOpeners(lines) # {}
    /\ \A o \in DeepestOpeners(lines) :
          (\A k \in DeepestOpeners(lines) : o <= k) => FenceLinesAfter(lines, o) # {}

\* C22: the code returned for a reply with fences holds no fence
\* delimiter, and when the reply has several fences it is the sanitized
\* content of the innermost block, with no text from outside that block.
C22_InnermostBlockKept ==
    (cleaned # <<>> /\ Contains(reply, Fence))
    => /\ ~Contains(cleaned[1], Fence)
       /\ SeveralFenceLines(SplitLines(reply))
          => cleaned[1] = CleanCode(InnermostContent(SplitLines(reply)))

\* the line starts with a recognised code token or contains an assignment
QualifiesAsCode(line) ==
    \/ \E p \in CodePrefixes : StartsWith(Strip(line), p)
    \/ Contains(line, <<"=">>)

\* C23: for a reply without fences the code returned starts at the first
\* line that starts with a recognised code token or contains an
\* assignment, whatever word that line starts with, and keeps every line
\* from there on; only the lines before it are dropped.
C23_KeptFromFirstCodeLine ==
    (cleaned # <<>> /\ ~Contains(reply, Fence))
    => LET lines == SplitLines(reply)
           hits == {i \in 1..Len(lines) : QualifiesAsCode(lines[i])}
       IN  IF hits = {} THEN cleaned[1] \in {Strip(reply), <<>>}
           ELSE cleaned[1] =
                   Strip(JoinLines(Drop(lines, CHOOSE i \in hits : \A k \in hits : i <= k)))

\* the line is a statement that the interpreter executes
Executable(line) == Meaning(line).op \notin {"syntaxerror", "pass"}

\* C30: for a reply without fences the code returned is the reply without
\* some number k of its leading lines, trimmed, and none of the k lines
\* removed is an executable statement.
C30_RemovedPrefixHoldsNoStatement ==
    (cleaned # <<>> /\ ~Contains(reply, Fence))
    => LET lines == SplitLines(reply)
       IN  \E k \in 0..(Len(lines) - 1) :
              /\ cleaned[1] = Strip(JoinLines(Drop(lines, k + 1)))
              /\ \A i \in 1..k : ~Executable(lines[i])

\* the DataFrame the loader makes of a sheet
TableOfSheet(sheet) == DropNaCols(DropNaRows(ReadExcel(sheet)))

\* C24: the tables loaded have one entry per sheet of the source, and the
\* data of every sheet is the value of an entry: no sheet is lost when the
\* names of two sheets normalize to the same identifier.
C24_OneTablePerSheet ==
    loaded # <<>>
    => /\ Len(loaded[1]) = Len(source.sheets)
       /\ \A i \in 1..Len(source.sheets) :
             \E j \in 1..Len(loaded[1]) : loaded[1][j].df = TableOfSheet(source.sheets[i])

\* C29: in the scope of every execution each of the fifteen safe
\* primitive names is bound to its baseline value, whatever the names of
\* the tables.
C29_PrimitivesKeepTheirNames ==
    \A i \in 1..Len(scopes) :
        \A n \in SafePrimitiveNames :
            n \in DOMAIN scopes[i] /\ scopes[i][n] = PrimRef(n)

\* C25: a request loads the tables and computes the summary once, before
\* its first generation call: the load is the first event of the request
\* and the only load, every prompt of every attempt carries the summary and
\* the table names of that one load, and when the load faults the request
\* ends at once, with no generation, execution or explanation call.
C25_LoadedOnceBeforeAttempts ==
    /\ pc = "idle" => (log = <<>> /\ prompts = <<>>)
    /\ pc # "idle"
       => /\ log # <<>>
          /\ log[1].ev = "load"
          /\ \A i \in 2..Len(log) : log[i].ev # "load"
    /\ \A k \in 1..Len(prompts) :
          /\ loaded # <<>>
          /\ df_analysis = AnalyzeDataframes(loaded[1])
          /\ prompts[k].analysis = AnalyzeDataframes(loaded[1])
          /\ prompts[k].dataframes = DictKeys(loaded[1])
    /\ (log # <<>> /\ ~log[1].ok)
       => (Len(log) = 1 /\ prompts = <<>> /\ scopes = <<>> /\ pc = "done")

\* C25 witness: a request made three attempts, the second and the third
\* after a failure, on the tables and the summary of its one load
C25_Witness ==
    /\ pc = "done"
    /\ Len(prompts) = max_attempts
    /\ log[1].ev = "load"
    /\ log[1].ok
    /\ Cardinality({i \in LogIdx : log[i].ev = "load"}) = 1
    /\ Cardinality({i \in LogIdx : log[i].ev = "execute"}) = max_attempts
    /\ prompts[max_attempts].analysis = AnalyzeDataframes(loaded[1])

\* C26: a request makes at most max_attempts generation calls and at most
\* max_attempts executions, a failed attempt before the last is followed
\* by the next attempt, and a request whose tables loaded ends succeeded,
\* or exhausted after max_attempts attempts.
C26_EndsSucceededOrExhausted ==
    /\ Cardinality({i \in LogIdx : log[i].ev = "generate"}) <= max_attempts
    /\ Cardinality({i \in LogIdx : log[i].ev = "execute"}) <= max_attempts
    /\ \A i \in LogIdx :
          (log[i].ev # "load" /\ ~log[i].ok /\ log[i].attempt < max_attempts)
          => IF i = Len(log)
             THEN pc = "generate" /\ attempt + 1 = log[i].attempt + 1
             ELSE log[i + 1].ev = "generate" /\ log[i + 1].attempt = log[i].attempt + 1
    /\ (pc = "done" /\ loaded # <<>>)
       => /\ ret # <<>>
          /\ ret[1].success \/ AttemptsStarted = max_attempts

\* C27: with two executions running at the same time, the output an
\* execution returns is exactly the text its own code printed, no buffer
\* ever holds text of the other execution, and nothing an execution
\* prints reaches the stream of the process.
C27_CapturedOutputIsOwnText ==
    /\ \A t \in Threads :
          thr[t].pc = "returned" => thr[t].output = OwnText(t, thr[t].prints)
    /\ \A t \in Threads :
          \E n \in 0..MaxPrints : streams[OutputBuffer(t)] = OwnText(t, n)
    /\ streams[RealStdout] = <<>>

\* C28: once every execution has returned, sys.stdout and sys.stderr are
\* the streams the process started with.
C28_StreamsRestored ==
    (\A t \in Threads : thr[t].pc = "returned")
    => (sys_stdout = RealStdout /\ sys_stderr = RealStderr)

====
